---- MODULE Spec2Model ----
(***************************************************************************)
(* kdc-bigquery-connector: the BigQueryConnector plugin (init, the         *)
(* per-probe createTableIfNotExists chain, saveMeasure) and the pure       *)
(* helpers it is built from, modelled from src/unnamed/part_003.           *)
(*                                                                         *)
(* JavaScript values are records [t, s, kids]: t is the typeof-like tag,   *)
(* s the text of a primitive, kids the own properties of an object or an   *)
(* array as a sequence of <<key, value>> pairs in key iteration order.     *)
(* Property keys and field names are sequences of one-character strings,   *)
(* so that normalizeFieldName works on characters; probe and table names   *)
(* are plain strings.                                                      *)
(***************************************************************************)
EXTENDS Integers, Sequences, FiniteSets, TLC

VARIABLES hooks, context, bigQuery, dataSet, probes, customConfig, initResult,
          initError, ensure, save, call

vars == <<hooks, context, bigQuery, dataSet, probes, customConfig, initResult,
          initError, ensure, save, call>>

\* The connector's own fields and what its operations have done so far.
connector == <<hooks, context, bigQuery, dataSet, probes, customConfig, initResult,
               initError, ensure, save>>

(* ------------------------------ bounds ------------------------------- *)

\* How many probes a configuration registers at most.
MaxProbes == 2

(* --------------------------- JavaScript values ----------------------- *)

Undefined == [t |-> "undefined", s |-> "", kids |-> <<>>]
Null == [t |-> "null", s |-> "", kids |-> <<>>]
Str(x) == [t |-> "string", s |-> x, kids |-> <<>>]
Bool(b) == [t |-> "boolean", s |-> IF b THEN "true" ELSE "false", kids |-> <<>>]
Obj(kids) == [t |-> "object", s |-> "", kids |-> kids]

\* ToBoolean: undefined, null, false and "" are falsy; every object is truthy.
Truthy(v) ==
  CASE v.t \in {"undefined", "null"} -> FALSE
    [] v.t = "boolean" -> v.s = "true"
    [] v.t = "string" -> v.s # ""
    [] OTHER -> TRUE

\* typeof v == 'object' && v !== null: plain objects and arrays alike.
IsObject(v) == v.t \in {"object", "array"}

Digits == <<"0", "1", "2", "3", "4", "5", "6", "7", "8", "9">>

DigitSet == {Digits[i] : i \in 1..10}

UpperCase == {"A", "B", "C", "D", "E", "F", "G", "H", "I", "J", "K", "L", "M",
              "N", "O", "P", "Q", "R", "S", "T", "U", "V", "W", "X", "Y", "Z"}

LowerCase == {"a", "b", "c", "d", "e", "f", "g", "h", "i", "j", "k", "l", "m",
              "n", "o", "p", "q", "r", "s", "t", "u", "v", "w", "x", "y", "z"}

DigitValue(c) == (CHOOSE i \in 1..10 : Digits[i] = c) - 1

\* The key of array element number n (0-based), for n < 100.
IndexKey(n) == IF n < 10 THEN <<Digits[n + 1]>>
               ELSE <<Digits[(n \div 10) + 1], Digits[(n % 10) + 1]>>

\* A canonical array index: digits only, no leading zero.
IsIndexKey(k) ==
  /\ Len(k) > 0
  /\ \A i \in 1..Len(k) : k[i] \in DigitSet
  /\ (Len(k) > 1 => k[1] # "0")

RECURSIVE IndexValue(_)
IndexValue(k) == IF k = <<>> THEN 0
                 ELSE 10 * IndexValue(SubSeq(k, 1, Len(k) - 1)) + DigitValue(k[Len(k)])

Arr(elems) == [t |-> "array", s |-> "",
               kids |-> [i \in 1..Len(elems) |-> <<IndexKey(i - 1), elems[i]>>]]

HasKey(kids, k) == \E i \in 1..Len(kids) : kids[i][1] = k

\* obj[k]: the own property, undefined when there is none.
Get(kids, k) == IF HasKey(kids, k)
                THEN kids[CHOOSE i \in 1..Len(kids) : kids[i][1] = k][2]
                ELSE Undefined

\* Where a new key goes in own-key iteration order: index keys come first,
\* in ascending order; the other keys follow in insertion order.
InsertAt(kids, k) ==
  IF IsIndexKey(k)
  THEN Cardinality({i \in 1..Len(kids) :
                      IsIndexKey(kids[i][1]) /\ IndexValue(kids[i][1]) < IndexValue(k)})
  ELSE Len(kids)

\* obj[k] = v: an existing key keeps its place, a new key is added.
Put(kids, k, v) ==
  IF HasKey(kids, k)
  THEN [i \in 1..Len(kids) |-> IF kids[i][1] = k THEN <<k, v>> ELSE kids[i]]
  ELSE LET n == InsertAt(kids, k)
       IN SubSeq(kids, 1, n) \o << <<k, v>> >> \o SubSeq(kids, n + 1, Len(kids))

RECURSIVE PutAll(_, _)
PutAll(kids, more) == IF more = <<>> THEN kids
                      ELSE PutAll(Put(kids, Head(more)[1], Head(more)[2]), Tail(more))

(* ---------------------------- pure helpers --------------------------- *)

\* /[^A-Z^a-z^0-9^_]/ : inside the class the later carets are literal, so the
\* characters left alone are letters, digits, '_' and '^'.
KeptByPattern(c) == c \in UpperCase \cup LowerCase \cup DigitSet \cup {"^", "_"}

normalizeFieldName(fieldName) ==
  [i \in 1..Len(fieldName) |->
     IF KeptByPattern(fieldName[i]) THEN fieldName[i] ELSE "_"]

\* The earlier normalizeFieldName: the same pattern without the g flag, so
\* replace() rewrites the first match only.
normalizeFieldNameLegacy(fieldName) ==
  LET hits == {i \in 1..Len(fieldName) : ~KeptByPattern(fieldName[i])}
  IN IF hits = {} THEN fieldName
     ELSE LET first == CHOOSE i \in hits : \A j \in hits : i <= j
          IN [i \in 1..Len(fieldName) |-> IF i = first THEN "_" ELSE fieldName[i]]

RECURSIVE NormalizeKids(_, _)
NormalizeKids(kids, normalizedData) ==
  IF kids = <<>> THEN normalizedData
  ELSE NormalizeKids(Tail(kids),
                     Put(normalizedData, normalizeFieldName(Head(kids)[1]), Head(kids)[2]))

normalizeMeasureData(data) == Obj(NormalizeKids(data.kids, <<>>))

RECURSIVE FlattenKids(_, _)
FlattenKids(kids, toReturn) ==
  IF kids = <<>> THEN toReturn
  ELSE LET i == Head(kids)[1]
           v == Head(kids)[2]
       IN FlattenKids(Tail(kids),
                      IF IsObject(v)
                      THEN PutAll(toReturn, FlattenKids(v.kids, <<>>))
                      ELSE Put(toReturn, i, v))

flattenObject(object) == Obj(FlattenKids(object.kids, <<>>))

ContentKey == <<"c", "o", "n", "t", "e", "n", "t">>

TimestampKey == <<"t", "i", "m", "e", "s", "t", "a", "m", "p">>

CountKey == <<"c", "o", "u", "n", "t">>

\* extractMeasureData with the keys normalized before the content is flattened.
extractMeasureDataNormalizeFirst(data) ==
  IF Truthy(Get(data.kids, ContentKey))
  THEN Arr(<<flattenObject(normalizeMeasureData(Get(data.kids, ContentKey)))>>)
  ELSE normalizeMeasureData(data)

extractMeasureData(data) ==
  IF Truthy(Get(data.kids, ContentKey))
  THEN Arr(<<normalizeMeasureData(flattenObject(Get(data.kids, ContentKey)))>>)
  ELSE normalizeMeasureData(data)

(* --------------------------- probe registry -------------------------- *)

\* A ProbeConfiguration: the fields the connector reads.  hooks is
\* undefined, a string, or an array value carrying the hook names in items.
Probe(type, tableName, schema, hks, timestamp) ==
  [type |-> type, tableName |-> tableName, schema |-> schema, hooks |-> hks,
   timestamp |-> timestamp]

Field(name, type, mode) == [name |-> name, type |-> type, mode |-> mode]

\* An explicit schema object {fields: [...]}.
Schema(fields) == [t |-> "object", s |-> "", kids |-> <<>>, fields |-> fields]

HookArray(items) == [t |-> "array", s |-> "", kids |-> <<>>, items |-> items]

TimestampField == Field(TimestampKey, "TIMESTAMP", "REQUIRED")

\* Property names every object inherits from Object.prototype: probes is an
\* object literal, so probes[name] finds these for any registry.
ObjectPrototype == {"constructor", "toString", "hasOwnProperty", "valueOf"}

\* Whether probes[probeName] is truthy: an own key (its configuration
\* object) or an inherited function.
HasProbe(registry, probeName) ==
  probeName \in DOMAIN registry \/ probeName \in ObjectPrototype

\* probes[probeName].tableName : an inherited function has no such property.
TableNameOf(registry, probeName) ==
  IF probeName \in DOMAIN registry THEN registry[probeName].tableName ELSE Undefined

\* probes[probeName].timestamp
TimestampOf(registry, probeName) ==
  IF probeName \in DOMAIN registry THEN registry[probeName].timestamp ELSE Undefined

getTableForProbe(registry, probeName) ==
  IF ~HasProbe(registry, probeName) THEN Null
  ELSE IF ~Truthy(TableNameOf(registry, probeName)) THEN Str(probeName)
  ELSE TableNameOf(registry, probeName)

\* buildMonitorSchema with the timestamp field put first.
buildMonitorSchemaTimestampFirst(hks) ==
  Schema(<<TimestampField>>
         \o [i \in 1..Len(hks) |-> Field(normalizeFieldName(hks[i]), "INTEGER", "NULLABLE")])

buildMonitorSchema(hks) ==
  Schema([i \in 1..Len(hks) |-> Field(normalizeFieldName(hks[i]), "INTEGER", "NULLABLE")]
         \o <<TimestampField>>)

ErrTypeMandatory == "Type field is mandatory in probes that do not provide schema"

ErrHooksField == "Monitor probes must have an \"hooks\" field, of type Array."

ErrSchemaMandatory == "Schema is mandatory for probes of type "

Returned(schema, probe) ==
  [threw |-> FALSE, error |-> "", arg |-> "", schema |-> schema, probe |-> probe]

Thrown(error, arg, probe) ==
  [threw |-> TRUE, error |-> error, arg |-> arg, schema |-> Undefined, probe |-> probe]

CounterSchema == Schema(<<Field(CountKey, "INTEGER", "REQUIRED"), TimestampField>>)

\* getSchemaForProbe without the check of the type field.
getSchemaForProbeUnchecked(probe) ==
  IF Truthy(probe.schema)
  THEN IF probe.type = Str("watcher") /\ Truthy(probe.timestamp)
       THEN LET pushed == Schema(probe.schema.fields \o <<TimestampField>>)
            IN Returned(pushed, [probe EXCEPT !.schema = pushed])
       ELSE Returned(probe.schema, probe)
  ELSE IF probe.type = Str("monitor")
       THEN IF ~Truthy(probe.hooks) \/ probe.hooks.t # "array"
            THEN Thrown(ErrHooksField, "", probe)
            ELSE Returned(buildMonitorSchema(probe.hooks.items), probe)
  ELSE IF probe.type = Str("counter") THEN Returned(CounterSchema, probe)
  ELSE Thrown(ErrSchemaMandatory, probe.type.s, probe)

\* The outcome of getSchemaForProbe(probe): the schema returned or the Error
\* thrown (its message, and the type the message ends with), and the probe
\* object as the call leaves it (the push changes probe.schema in place).
getSchemaForProbe(probe) ==
  IF Truthy(probe.schema)
  THEN IF probe.type = Str("watcher") /\ Truthy(probe.timestamp)
       THEN LET pushed == Schema(probe.schema.fields \o <<TimestampField>>)
            IN Returned(pushed, [probe EXCEPT !.schema = pushed])
       ELSE Returned(probe.schema, probe)
  ELSE IF ~Truthy(probe.type) THEN Thrown(ErrTypeMandatory, "", probe)
  ELSE IF probe.type = Str("monitor")
       THEN IF ~Truthy(probe.hooks) \/ probe.hooks.t # "array"
            THEN Thrown(ErrHooksField, "", probe)
            ELSE Returned(buildMonitorSchema(probe.hooks.items), probe)
  ELSE IF probe.type = Str("counter") THEN Returned(CounterSchema, probe)
  ELSE Thrown(ErrSchemaMandatory, probe.type.s, probe)


(* ------------------------------ inputs ------------------------------- *)

\* The names a configuration may register, in registration order.
RegNames == <<"probe_1", "probe_2", "probe_3", "probe_4">>

Registered(n) == {RegNames[i] : i \in 1..n}

\* Names measures and direct calls may carry: the registrable ones, one that
\* is never registered, and one that every object inherits.
AllNames == Registered(MaxProbes) \cup {"other_probe", "constructor"}

ExplicitSchema == Schema(<<Field(<<"f", "1">>, "STRING", "NULLABLE")>>)

EmptyProbe == Probe(Undefined, Undefined, Undefined, Undefined, Undefined)

CounterProbe == Probe(Str("counter"), Undefined, Undefined, Undefined, Undefined)

CounterTsProbe == Probe(Str("counter"), Str("table_counter"), Undefined, Undefined, Bool(TRUE))

WatcherTsProbe == Probe(Str("watcher"), Undefined, ExplicitSchema, Undefined, Bool(TRUE))

WatcherBareProbe == Probe(Str("watcher"), Undefined, Undefined, Undefined, Undefined)

MonitorBareProbe == Probe(Str("monitor"), Str("table_monitor"), Undefined, Undefined, Undefined)

\* The probe configurations a registry is built from.
ProbeCatalog == {CounterProbe, CounterTsProbe, WatcherTsProbe, WatcherBareProbe,
                 EmptyProbe, MonitorBareProbe}

Registries == UNION {[Registered(n) -> ProbeCatalog] : n \in 0..MaxProbes}

\* customConfig.probes as a value: the registry object.
RegistryValue(registry) == [t |-> "object", s |-> "", kids |-> <<>>, map |-> registry]

Configs ==
  [projectId : {Undefined, Str("toto")},
   credentials : {Undefined, Obj(<<>>)},
   dataSet : {Undefined, Str("LULZ")},
   probes : {Undefined} \cup {RegistryValue(r) : r \in Registries}]

\* The deployments measures are delivered to: the first probes of one sample
\* registry, and one configuration per missing top-level field.
SampleProbes == <<CounterTsProbe, CounterProbe, WatcherTsProbe, WatcherBareProbe>>

SampleRegistry(n) == [name \in Registered(n) |->
                       SampleProbes[CHOOSE i \in 1..n : RegNames[i] = name]]

ValidConfig(registry) ==
  [projectId |-> Str("toto"), credentials |-> Obj(<<>>), dataSet |-> Str("LULZ"),
   probes |-> RegistryValue(registry)]

HostConfigs ==
  {ValidConfig(SampleRegistry(n)) : n \in 0..MaxProbes}
  \cup {[ValidConfig(SampleRegistry(MaxProbes)) EXCEPT !.projectId = Undefined],
        [ValidConfig(SampleRegistry(MaxProbes)) EXCEPT !.credentials = Undefined],
        [ValidConfig(SampleRegistry(MaxProbes)) EXCEPT !.dataSet = Undefined],
        [ValidConfig(SampleRegistry(MaxProbes)) EXCEPT !.probes = Undefined]}

FlatData == Obj(<< <<CountKey, Str("12")>> >>)

WrappedData == Obj(<< <<ContentKey, Obj(<< <<<<"a", ":", "b">>, Str("v")>> >>)>> >>)

MeasureData == {FlatData, WrappedData}

Measures == [probeName : AllNames, data : MeasureData]

\* What exists() settles with: [true], [false], or a rejection.
ExistsAnswers == {"present", "absent", "error"}

\* What insert() settles with: fulfilled, rejected with an Error, rejected
\* with no reason.
InsertAnswers == {"resolved", "Error", "undefined"}

(* ------------------------------- state ------------------------------- *)

NoEnsure == [phase |-> "none", answer |-> "none", existsCalls |-> 0,
             createCalls |-> 0, schema |-> Undefined, created |-> "none",
             direct |-> FALSE]

NoSave == [called |-> FALSE, probeName |-> "", data |-> Undefined, known |-> FALSE,
           flag |-> FALSE, threw |-> FALSE, extracted |-> FALSE, timestamped |-> FALSE,
           table |-> Null, rows |-> Undefined, inserts |-> 0, insert |-> "none",
           reason |-> "none", infoLogs |-> 0, errorLogs |-> 0, unhandled |-> FALSE]

NoConfig == [projectId |-> Undefined, credentials |-> Undefined, dataSet |-> Undefined,
             probes |-> Undefined]

\* One call of a helper on its own: the arguments (registry and probeName, a
\* probe, a field name, a list of hooks, an object), how many times it has
\* been applied, what it returned, and the argument object as the calls
\* leave it.
NoCall == [fn |-> "none", done |-> FALSE, registry |-> <<>>, probeName |-> "",
           probe |-> EmptyProbe, result |-> Undefined,
           calls |-> 0, object |-> EmptyProbe, first |-> Undefined,
           version |-> "current", text |-> <<>>, once |-> <<>>, twice |-> <<>>,
           hookList |-> <<>>, value |-> Undefined]

\* The connector as its constructor leaves it.
Constructed ==
  /\ hooks = {}
  /\ context = FALSE
  /\ bigQuery = FALSE
  /\ dataSet = Null
  /\ probes = <<>>
  /\ customConfig = NoConfig
  /\ initResult = "none"
  /\ initError = ""
  /\ ensure = [n \in AllNames |-> NoEnsure]
  /\ save = NoSave

Init == Constructed /\ call = NoCall


(* ------------------------------- init -------------------------------- *)

ErrProjectId == "kdc-bigquery-connector: The projectId configuration is mandatory"

ErrCredentials == "kdc-bigquery-connector: The credentials configuration is mandatory"

ErrDataSet == "kdc-bigquery-connector: The dataSet configuration is mandatory"

ErrProbes == "kdc-bigquery-connector: The probes configuration is mandatory"

HookEvent == "plugin-kuzzle-enterprise-probe:receivedMeasure"

\* ConfigError with the credentials check placed before the projectId check.
ConfigErrorCredentialsFirst(cfg) ==
  IF ~Truthy(cfg.credentials) THEN ErrCredentials
  ELSE IF ~Truthy(cfg.projectId) THEN ErrProjectId
  ELSE IF ~Truthy(cfg.dataSet) THEN ErrDataSet
  ELSE IF ~Truthy(cfg.probes) THEN ErrProbes
  ELSE ""

\* The PreconditionError init throws for a configuration, "" when it throws
\* none: the checks run in source order and the first failing one throws.
ConfigError(cfg) ==
  IF ~Truthy(cfg.projectId) THEN ErrProjectId
  ELSE IF ~Truthy(cfg.credentials) THEN ErrCredentials
  ELSE IF ~Truthy(cfg.dataSet) THEN ErrDataSet
  ELSE IF ~Truthy(cfg.probes) THEN ErrProbes
  ELSE ""

\* createTableIfNotExists up to its first suspension: resolved at once for a
\* falsy table name, otherwise the exists() call is issued.  Without a
\* client, this.bigQuery.dataset(...) throws a TypeError synchronously.
createTableIfNotExists(registry, client, rec, probeName, direct) ==
  IF ~Truthy(getTableForProbe(registry, probeName))
  THEN [rec EXCEPT !.phase = "resolved", !.answer = "none", !.direct = direct]
  ELSE IF ~client
  THEN [rec EXCEPT !.phase = "threw", !.answer = "none", !.direct = direct]
  ELSE [rec EXCEPT !.phase = "exists", !.answer = "none", !.direct = direct,
                   !.existsCalls = @ + 1]

\* ExistsSettled giving up on a probe once another probe has made init fail.
ExistsSettledShortCircuit(rec, probe, answer) ==
  IF answer = "present"
  THEN [rec |-> [rec EXCEPT !.phase = "resolved", !.answer = answer], probe |-> probe]
  ELSE LET r == getSchemaForProbe(probe)
       IN IF r.threw \/ initResult = "rejected"
          THEN [rec |-> [rec EXCEPT !.phase = "rejected", !.answer = answer],
                probe |-> r.probe]
          ELSE [rec |-> [rec EXCEPT !.phase = "create", !.answer = answer,
                                    !.createCalls = @ + 1, !.schema = r.schema],
                probe |-> r.probe]

\* ExistsSettled without the test of exists[0]: the table is always created.
ExistsSettledAlwaysCreate(rec, probe, answer) ==
  LET r == getSchemaForProbe(probe)
  IN IF r.threw
     THEN [rec |-> [rec EXCEPT !.phase = "rejected", !.answer = answer], probe |-> r.probe]
     ELSE [rec |-> [rec EXCEPT !.phase = "create", !.answer = answer,
                               !.createCalls = @ + 1, !.schema = r.schema],
           probe |-> r.probe]

\* The .then and first .catch of createTableIfNotExists, run when exists()
\* settles: a present table resolves the chain; otherwise the schema is
\* resolved and createTable issued, and a throw of getSchemaForProbe goes to
\* the last .catch, which rejects.
ExistsSettled(rec, probe, answer) ==
  IF answer = "present"
  THEN [rec |-> [rec EXCEPT !.phase = "resolved", !.answer = answer], probe |-> probe]
  ELSE LET r == getSchemaForProbe(probe)
       IN IF r.threw
          THEN [rec |-> [rec EXCEPT !.phase = "rejected", !.answer = answer],
                probe |-> r.probe]
          ELSE [rec |-> [rec EXCEPT !.phase = "create", !.answer = answer,
                                    !.createCalls = @ + 1, !.schema = r.schema],
                probe |-> r.probe]

\* CreateSettled with a last .catch that logs and does not reject.
CreateSettledSwallowed(rec, ok) ==
  [rec EXCEPT !.created = IF ok THEN "ok" ELSE "failed", !.phase = "resolved"]

\* The end of the chain when createTable settles: its fulfilment is the
\* chain's, its rejection goes through the last .catch, which rejects.
CreateSettled(rec, ok) ==
  [rec EXCEPT !.created = IF ok THEN "ok" ELSE "failed",
              !.phase = IF ok THEN "resolved" ELSE "rejected"]

\* PromiseAll waiting for every chain to settle and fulfilling whatever the
\* outcomes (the behaviour of Promise.allSettled).
PromiseAllSettled(ens, keys) ==
  IF \A n \in keys : ens[n].phase \in {"resolved", "rejected"} THEN "resolved"
  ELSE "pending"

\* Promise.all over the chains of the registered probes.
PromiseAll(ens, keys) ==
  IF \E n \in keys : ens[n].phase = "rejected" THEN "rejected"
  ELSE IF \A n \in keys : ens[n].phase = "resolved" THEN "resolved"
  ELSE "pending"

\* init(customConfig, context): called once by the plugin host.
init(cfg) ==
  /\ initResult = "none"
  /\ customConfig' = cfg
  /\ context' = TRUE
  /\ hooks' = hooks \cup {HookEvent}
  /\ initError' = ConfigError(cfg)
  /\ bigQuery' = (ConfigError(cfg) \notin {ErrProjectId, ErrCredentials})
  /\ dataSet' = IF ConfigError(cfg) \in {ErrProbes, ""} THEN cfg.dataSet ELSE dataSet
  /\ probes' = IF ConfigError(cfg) = "" THEN cfg.probes.map ELSE probes
  /\ ensure' = [n \in AllNames |->
                  IF n \in DOMAIN probes'
                  THEN createTableIfNotExists(probes', bigQuery', ensure[n], n, FALSE)
                  ELSE ensure[n]]
  /\ initResult' = IF ConfigError(cfg) # "" THEN "threw"
                   ELSE PromiseAll(ensure', DOMAIN probes')
  /\ UNCHANGED <<save, call>>

\* The host initializes the plugin with any configuration.
InitCall == \E cfg \in Configs : init(cfg)

\* The host initializes one of the sample deployments.
HostInit == \E cfg \in HostConfigs : init(cfg)

\* A direct call of the public method createTableIfNotExists({}, probeName),
\* made on a connector whose init has returned.
EnsureCall ==
  \E n \in AllNames :
    /\ initResult \in {"pending", "resolved", "rejected"}
    /\ ensure[n].phase = "none"
    /\ ensure' = [ensure EXCEPT ![n] = createTableIfNotExists(probes, bigQuery, @, n, TRUE)]
    /\ UNCHANGED <<hooks, context, bigQuery, dataSet, probes, customConfig, initResult,
                   initError, save, call>>

\* The probe object a pending chain holds: the registry's own object for a
\* chain started by init, the caller's {} for a direct call.
ProbeOf(n) == IF ensure[n].direct THEN EmptyProbe ELSE probes[n]

\* exists() settles for one probe and the chain runs on.
ExistsResponds ==
  \E n \in AllNames, answer \in ExistsAnswers :
    /\ ensure[n].phase = "exists"
    /\ LET r == ExistsSettled(ensure[n], ProbeOf(n), answer)
       IN /\ ensure' = [ensure EXCEPT ![n] = r.rec]
          /\ probes' = IF ensure[n].direct THEN probes ELSE [probes EXCEPT ![n] = r.probe]
    /\ initResult' = IF initResult = "pending" THEN PromiseAll(ensure', DOMAIN probes)
                     ELSE initResult
    /\ UNCHANGED <<hooks, context, bigQuery, dataSet, customConfig, initError, save, call>>

\* createTable() settles for one probe.
CreateResponds ==
  \E n \in AllNames, ok \in BOOLEAN :
    /\ ensure[n].phase = "create"
    /\ ensure' = [ensure EXCEPT ![n] = CreateSettled(@, ok)]
    /\ initResult' = IF initResult = "pending" THEN PromiseAll(ensure', DOMAIN probes)
                     ELSE initResult
    /\ UNCHANGED <<hooks, context, bigQuery, dataSet, probes, customConfig, initError,
                   save, call>>


(* ---------------------------- saveMeasure ---------------------------- *)

\* Math.round((new Date()).getTime() / 1000)
Now == [t |-> "number", s |-> "now", kids |-> <<>>]

\* data[0].timestamp = now.  The class body is strict code: the assignment
\* throws a TypeError unless data[0] is an object.
SetTimestamp(data) ==
  LET first == Get(data.kids, IndexKey(0))
  IN IF IsObject(first)
     THEN [threw |-> FALSE,
           data |-> [data EXCEPT !.kids =
                       Put(data.kids, IndexKey(0),
                           [first EXCEPT !.kids = Put(first.kids, TimestampKey, Now)])]]
     ELSE [threw |-> TRUE, data |-> data]

\* saveMeasure(measure) up to its return or throw, as the record of the call.
saveMeasure(registry, ctx, client, measure) ==
  LET tableName == getTableForProbe(registry, measure.probeName)
      data == extractMeasureData(measure.data)
      flagged == Truthy(TimestampOf(registry, measure.probeName))
      stamped == IF flagged THEN SetTimestamp(data) ELSE [threw |-> FALSE, data |-> data]
      entry == [NoSave EXCEPT !.called = TRUE, !.probeName = measure.probeName,
                              !.data = measure.data,
                              !.known = (measure.probeName \in DOMAIN registry),
                              !.flag = flagged]
  IN IF ~Truthy(tableName) THEN entry
     ELSE IF ~ctx
     THEN [entry EXCEPT !.table = tableName, !.extracted = TRUE, !.threw = TRUE]
     ELSE IF stamped.threw
     THEN [entry EXCEPT !.table = tableName, !.extracted = TRUE, !.infoLogs = 3,
                        !.threw = TRUE]
     ELSE IF ~client
     THEN [entry EXCEPT !.table = tableName, !.extracted = TRUE, !.infoLogs = 3,
                        !.timestamped = flagged, !.threw = TRUE]
     ELSE [entry EXCEPT !.table = tableName, !.extracted = TRUE, !.infoLogs = 3,
                        !.timestamped = flagged, !.rows = stamped.data,
                        !.inserts = 1, !.insert = "pending"]

\* The .then and .catch after insert(): success is logged with log.info, a
\* failure with log.error; reading e.message of an absent reason throws in
\* the handler, before log.error is called, and nothing handles that.
InsertSettled(sv, answer) ==
  IF answer = "resolved"
  THEN [sv EXCEPT !.insert = "resolved", !.infoLogs = @ + 1]
  ELSE IF answer = "undefined"
  THEN [sv EXCEPT !.insert = "rejected", !.reason = answer, !.unhandled = TRUE]
  ELSE [sv EXCEPT !.insert = "rejected", !.reason = answer, !.errorLogs = @ + 1]

\* The host delivers a measure to the hook init has registered, once init
\* has returned; the model follows one measure at a time to the outcome of
\* its insert.
SaveMeasureCall ==
  \E measure \in Measures :
    /\ HookEvent \in hooks
    /\ initResult \in {"pending", "resolved", "rejected"}
    /\ save.insert # "pending"
    /\ save' = saveMeasure(probes, context, bigQuery, measure)
    /\ UNCHANGED <<hooks, context, bigQuery, dataSet, probes, customConfig, initResult,
                   initError, ensure, call>>

\* insert() settles.
InsertResponds ==
  \E answer \in InsertAnswers :
    /\ save.insert = "pending"
    /\ save' = InsertSettled(save, answer)
    /\ UNCHANGED <<hooks, context, bigQuery, dataSet, probes, customConfig, initResult,
                   initError, ensure, call>>

\* The connector in service: initialization, direct table-ensure calls and
\* measures, interleaved with the warehouse's answers.
Next ==
  \/ HostInit
  \/ EnsureCall
  \/ ExistsResponds
  \/ CreateResponds
  \/ SaveMeasureCall
  \/ InsertResponds

Spec == Init /\ [][Next]_vars

\* Initialization alone, over every configuration.
NextInit ==
  \/ InitCall
  \/ ExistsResponds
  \/ CreateResponds

SpecInit == Init /\ [][NextInit]_vars

(* ----------------------- the helpers called alone --------------------- *)

\* Registries and names getTableForProbe is called with.
TableProbes == {EmptyProbe,
                [EmptyProbe EXCEPT !.tableName = Str("")],
                [EmptyProbe EXCEPT !.tableName = Str("some_table")]}

TableRegistries == UNION {[keys -> TableProbes] : keys \in SUBSET {"some_probe", ""}}

TableNames == {"some_probe", "other_probe", "", "constructor"}

\* How many hooks a monitor probe declares at most.
MaxHooks == 2

\* How many times the schema of one probe object is resolved at most.
MaxResolutions == 2

\* The longest field name normalizeFieldName is called with.
MaxLen == 3

\* How many keys an object handed to flattenObject has at most.
MaxKeys == 2

\* How many elements a content array has at most.
MaxRows == 2

\* Hook names: two that normalize to the same column, and one that is the
\* name of the column every monitor schema ends with.
HookNames == {<<"a", ":", "b">>, <<"a", "_", "b">>, <<"a", "^", "b">>,
              <<"o", "n", "e", ":", "h", "o", "o", "k">>, TimestampKey}

HookLists == UNION {[1..n -> HookNames] : n \in 0..MaxHooks}

\* Probes getSchemaForProbe is called with.
SchemaProbes ==
  [type : {Undefined, Str("monitor"), Str("counter"), Str("watcher"), Str("sampler")},
   tableName : {Undefined},
   schema : {Undefined, ExplicitSchema},
   hooks : {Undefined, Str("blabla")} \cup {HookArray(h) : h \in HookLists},
   timestamp : {Undefined, Bool(FALSE), Bool(TRUE)}]

\* Characters field names are made of: a letter, a digit, the underscore,
\* and three the warehouse does not allow.
Alphabet == {"a", "7", "_", "^", ":", "."}

Texts == UNION {[1..n -> Alphabet] : n \in 0..MaxLen}

\* Keys and values of the objects handed to flattenObject and to
\* extractMeasureData: scalars, null, a sequence, nested mappings.
Keys == {<<"a">>, <<"a", ":", "b">>, <<"1">>}

Values == {Str("v"), Null, Arr(<<Str("x"), Str("y")>>),
           Obj(<< <<<<"a">>, Str("w")>> >>),
           Obj(<< <<<<"c", ".", "d">>, Str("u")>>,
                  <<<<"p">>, Obj(<< <<<<"a">>, Str("z")>> >>)>> >>)}

\* The object literal with the given properties, in own-key order.
Literal(pairs) == Obj(PutAll(<<>>, pairs))

Objects == {Literal(pairs) : pairs \in UNION {[1..n -> Keys \X Values] : n \in 0..MaxKeys}}

\* Measure data: flat, wrapped in content (one structure), or with a content
\* array of structures.
Rows == {Literal(<<pair>>) : pair \in Keys \X Values}

ContentArrays == {Arr(elems) : elems \in UNION {[1..n -> Rows] : n \in 0..MaxRows}}

Wrapped(content) == Obj(<< <<ContentKey, content>> >>)

DataValues == Objects \cup {Wrapped(c) : c \in Objects \cup ContentArrays}

PureCalls ==
  {[NoCall EXCEPT !.fn = "getTableForProbe", !.registry = r, !.probeName = n] :
     r \in TableRegistries, n \in TableNames}
  \cup {[NoCall EXCEPT !.fn = "getSchemaForProbe", !.probe = p, !.object = p] :
          p \in SchemaProbes}
  \cup {[NoCall EXCEPT !.fn = "buildMonitorSchema", !.hookList = h] : h \in HookLists}
  \cup {[NoCall EXCEPT !.fn = "normalizeFieldName", !.version = v, !.text = t] :
          v \in {"current", "legacy"}, t \in Texts}
  \cup {[NoCall EXCEPT !.fn = "flattenObject", !.value = o] : o \in Objects}
  \cup {[NoCall EXCEPT !.fn = "extractMeasureData", !.value = d] : d \in DataValues}

InitPure == Constructed /\ call \in PureCalls

ApplyGetTableForProbe ==
  /\ call.fn = "getTableForProbe"
  /\ ~call.done
  /\ call' = [call EXCEPT !.done = TRUE,
                          !.result = getTableForProbe(call.registry, call.probeName)]
  /\ UNCHANGED connector

\* getSchemaForProbe(probe), again and again on the same probe object.
ApplyGetSchemaForProbe ==
  /\ call.fn = "getSchemaForProbe"
  /\ call.calls < MaxResolutions
  /\ LET r == getSchemaForProbe(call.object)
     IN call' = [call EXCEPT !.done = TRUE, !.calls = @ + 1, !.result = r,
                             !.object = r.probe,
                             !.first = IF call.calls = 0 THEN r ELSE @]
  /\ UNCHANGED connector

ApplyBuildMonitorSchema ==
  /\ call.fn = "buildMonitorSchema"
  /\ ~call.done
  /\ call' = [call EXCEPT !.done = TRUE, !.calls = 1,
                          !.result = buildMonitorSchema(call.hookList)]
  /\ UNCHANGED connector

\* normalizeFieldName(fieldName), then normalizeFieldName of what it returned.
ApplyNormalizeFieldName ==
  /\ call.fn = "normalizeFieldName"
  /\ call.calls < 2
  /\ LET arg == IF call.calls = 0 THEN call.text ELSE call.once
         out == IF call.version = "legacy" THEN normalizeFieldNameLegacy(arg)
                ELSE normalizeFieldName(arg)
     IN call' = [call EXCEPT !.done = TRUE, !.calls = @ + 1,
                             !.once = IF call.calls = 0 THEN out ELSE @,
                             !.twice = IF call.calls = 0 THEN @ ELSE out]
  /\ UNCHANGED connector

ApplyFlattenObject ==
  /\ call.fn = "flattenObject"
  /\ ~call.done
  /\ call' = [call EXCEPT !.done = TRUE, !.calls = 1,
                          !.result = flattenObject(call.value)]
  /\ UNCHANGED connector

\* extractMeasureData(data): it assigns to fresh objects only, data is left
\* as it was.
ApplyExtractMeasureData ==
  /\ call.fn = "extractMeasureData"
  /\ ~call.done
  /\ call' = [call EXCEPT !.done = TRUE, !.calls = 1,
                          !.result = extractMeasureData(call.value),
                          !.object = call.value]
  /\ UNCHANGED connector

NextPure ==
  \/ ApplyGetTableForProbe
  \/ ApplyGetSchemaForProbe
  \/ ApplyBuildMonitorSchema
  \/ ApplyNormalizeFieldName
  \/ ApplyFlattenObject
  \/ ApplyExtractMeasureData

SpecPure == InitPure /\ [][NextPure]_vars

(* ------------------------------ claims ------------------------------- *)

Missing(field) == ~Truthy(customConfig[field])

InitCalled == initResult # "none"

InitReturned == initResult \in {"pending", "resolved", "rejected"}

\* Whether a probe carries what a schema can be resolved from.
SchemaResolvable(probe) ==
  \/ Truthy(probe.schema)
  \/ probe.type = Str("counter")
  \/ (probe.type = Str("monitor") /\ probe.hooks.t = "array")

\* C1: init checks projectId, credentials, dataSet, probes in this order and
\* throws the error of the first missing field only, each field having its own
\* message; when any of the four is missing no exists, createTable or insert
\* call is issued.
C1_FirstMissingFieldWins ==
  InitCalled =>
    /\ Cardinality({ErrProjectId, ErrCredentials, ErrDataSet, ErrProbes}) = 4
    /\ Missing("projectId") => initError = ErrProjectId
    /\ ~Missing("projectId") /\ Missing("credentials") => initError = ErrCredentials
    /\ ~Missing("projectId") /\ ~Missing("credentials") /\ Missing("dataSet")
         => initError = ErrDataSet
    /\ ~Missing("projectId") /\ ~Missing("credentials") /\ ~Missing("dataSet")
         /\ Missing("probes") => initError = ErrProbes
    /\ (\E f \in {"projectId", "credentials", "dataSet", "probes"} : Missing(f))
         => /\ initResult = "threw"
            /\ \A n \in AllNames : ensure[n].existsCalls = 0 /\ ensure[n].createCalls = 0
            /\ save.inserts = 0

\* C1 witness: init has thrown for the credentials while dataSet and probes
\* are missing too.
C1_Witness ==
  /\ initResult = "threw"
  /\ initError = ErrCredentials
  /\ Missing("dataSet")
  /\ Missing("probes")

\* C2: for a valid configuration the result of init is a success exactly when
\* the chain of every registered probe has succeeded, and a failure exactly
\* when the chain of at least one has failed.
C2_InitJoinsAllProbes ==
  InitReturned =>
    /\ initResult = "resolved" <=> \A n \in DOMAIN probes : ensure[n].phase = "resolved"
    /\ initResult = "rejected" <=> \E n \in DOMAIN probes : ensure[n].phase = "rejected"

\* C2 witness: init has succeeded over two probes, one of whose tables had
\* to be created.
C2_Witness ==
  /\ initResult = "resolved"
  /\ Cardinality(DOMAIN probes) >= 2
  /\ \E n \in DOMAIN probes : ensure[n].created = "ok"

\* Some registered probe other than n has had its createTable call fail.
CreateFailedBeside(n) ==
  \E m \in DOMAIN probes : m # n /\ ensure[m].created = "failed"

\* C3 as stated: when the createTable call of one probe fails, every other
\* registered probe still has its existence check issued and, its table
\* being absent, its createTable issued, and init fails.
C3_Original ==
  \A n \in DOMAIN probes :
    CreateFailedBeside(n) =>
      /\ ensure[n].existsCalls >= 1
      /\ ensure[n].answer = "absent" => ensure[n].createCalls >= 1
      /\ initResult = "rejected"

\* C3 amended: when the createTable call of one probe fails, every other
\* registered probe still has its existence check issued and, its table
\* being absent and its schema resolvable, its createTable issued, and init
\* fails.
C3_FanOutNotShortCircuited ==
  \A n \in DOMAIN probes :
    CreateFailedBeside(n) =>
      /\ ensure[n].existsCalls >= 1
      /\ ensure[n].answer = "absent" /\ SchemaResolvable(probes[n])
           => ensure[n].createCalls >= 1
      /\ initResult = "rejected"

\* C3 witness: init has failed on one probe's createTable and another probe,
\* found absent, has its createTable issued.
C3_Witness ==
  \E n \in DOMAIN probes :
    /\ CreateFailedBeside(n)
    /\ ensure[n].answer = "absent"
    /\ ensure[n].createCalls = 1
    /\ initResult = "rejected"

\* C4 as stated: for a registered probe createTable is attempted whenever the
\* existence check reports the table absent or itself fails, and the chain
\* then succeeds if createTable succeeds and fails if createTable fails.
C4_Original ==
  \A n \in DOMAIN probes :
    ensure[n].answer \in {"absent", "error"} =>
      /\ ensure[n].createCalls = 1
      /\ ensure[n].created = "ok" => ensure[n].phase = "resolved"
      /\ ensure[n].created = "failed" => ensure[n].phase = "rejected"

\* C4 amended: for a registered probe whose schema can be resolved,
\* createTable is attempted whenever the existence check reports the table
\* absent or itself fails, and the chain then succeeds if createTable succeeds
\* and fails if createTable fails.
C4_CreateWhenAbsentOrUnknown ==
  \A n \in DOMAIN probes :
    ensure[n].answer \in {"absent", "error"} /\ SchemaResolvable(probes[n]) =>
      /\ ensure[n].createCalls = 1
      /\ ensure[n].created = "ok" => ensure[n].phase = "resolved"
      /\ ensure[n].created = "failed" => ensure[n].phase = "rejected"

\* C4 witness: the existence call of a registered probe failed, its table was
\* created and its chain succeeded.
C4_Witness ==
  \E n \in DOMAIN probes :
    /\ ensure[n].answer = "error"
    /\ ensure[n].created = "ok"
    /\ ensure[n].phase = "resolved"

\* C5: createTable is never called for a probe whose existence check
\* reported its table present, and when the check reports present for every
\* registered probe init succeeds without a single createTable call.
C5_NoCreateWhenPresent ==
  /\ \A n \in DOMAIN probes :
       ensure[n].answer = "present" =>
         ensure[n].createCalls = 0 /\ ensure[n].phase = "resolved"
  /\ InitReturned /\ (\A n \in DOMAIN probes : ensure[n].answer = "present")
       => /\ initResult = "resolved"
          /\ \A n \in AllNames : ensure[n].createCalls = 0

\* C5 witness: init has succeeded over two probes whose tables were all
\* reported present.
C5_Witness ==
  /\ initResult = "resolved"
  /\ Cardinality(DOMAIN probes) >= 2
  /\ \A n \in DOMAIN probes : ensure[n].answer = "present"

\* C6: a probe name that is not in the registry is a silent no-op:
\* saveMeasure extracts nothing, issues no insert and raises nothing, and a
\* createTableIfNotExists call issues no warehouse call and succeeds at once.
C6_UnregisteredIsNoOp ==
  /\ save.called /\ ~save.known
       => ~save.threw /\ ~save.extracted /\ save.inserts = 0
  /\ \A n \in AllNames \ DOMAIN probes :
       ensure[n].direct =>
         /\ ensure[n].phase = "resolved"
         /\ ensure[n].existsCalls = 0
         /\ ensure[n].createCalls = 0

\* C7: for a measure of a registered probe saveMeasure returns normally and
\* issues exactly one insert; when the insert fails, whatever the reason, the
\* failure is logged with the error logger and goes no further.
C7_InsertFailureLoggedNotRaised ==
  save.called /\ save.known =>
    /\ ~save.threw
    /\ save.inserts = 1
    /\ save.insert = "rejected" => save.errorLogs = 1 /\ ~save.unhandled

\* The row handed to insert for the measure in hand carries a timestamp.
RowHasTimestamp ==
  /\ IsObject(Get(save.rows.kids, IndexKey(0)))
  /\ HasKey(Get(save.rows.kids, IndexKey(0)).kids, TimestampKey)

\* C8: for a registered probe whose timestamp flag is truthy, whatever the
\* shape of the payload, saveMeasure adds a timestamp to the extracted row
\* and issues the insert, and raises nothing.
C8_TimestampAddedForEveryShape ==
  save.called /\ save.known /\ save.flag =>
    /\ ~save.threw
    /\ save.timestamped
    /\ save.inserts = 1
    /\ RowHasTimestamp

GetTableDone == call.fn = "getTableForProbe" /\ call.done

\* C9: getTableForProbe returns null for every name that is not a key of the
\* registry; for a key it returns the probe's tableName when one is set and
\* the probe name otherwise, and never the empty string.
C9_TableNameResolution ==
  GetTableDone =>
    /\ call.probeName \notin DOMAIN call.registry => call.result = Null
    /\ call.probeName \in DOMAIN call.registry =>
         /\ call.result # Str("")
         /\ call.result = IF Truthy(call.registry[call.probeName].tableName)
                          THEN call.registry[call.probeName].tableName
                          ELSE Str(call.probeName)

GetSchemaDone == call.fn = "getSchemaForProbe" /\ call.done

\* C10: for a probe without explicit schema the rules apply in order: no
\* type, the 'Type field is mandatory' error; type counter, exactly the
\* fields count INTEGER REQUIRED and timestamp TIMESTAMP REQUIRED; a type
\* other than monitor and counter, the 'Schema is mandatory for probes of
\* type <type>' error.
C10_SchemaDecisionTable ==
  GetSchemaDone /\ call.probe.schema = Undefined =>
    /\ call.probe.type = Undefined =>
         /\ call.result.threw
         /\ call.result.error = "Type field is mandatory in probes that do not provide schema"
    /\ call.probe.type = Str("counter") =>
         /\ ~call.result.threw
         /\ call.result.schema.fields =
              <<[name |-> <<"c", "o", "u", "n", "t">>, type |-> "INTEGER", mode |-> "REQUIRED"],
                [name |-> <<"t", "i", "m", "e", "s", "t", "a", "m", "p">>,
                 type |-> "TIMESTAMP", mode |-> "REQUIRED"]>>
    /\ call.probe.type \in {Str("watcher"), Str("sampler")} =>
         /\ call.result.threw
         /\ call.result.error = "Schema is mandatory for probes of type "
         /\ call.result.arg = call.probe.type.s

\* C10 witness: getSchemaForProbe has thrown for a sampler without schema.
C10_Witness ==
  /\ GetSchemaDone
  /\ call.probe.schema = Undefined
  /\ call.probe.type = Str("sampler")
  /\ call.result.threw

\* C11: for a monitor probe without explicit schema getSchemaForProbe
\* succeeds only when hooks is a non-empty array; when hooks is missing, not
\* an array, or an empty array it throws the 'hooks field' error and no
\* schema is built.
C11_MonitorNeedsNonEmptyHooks ==
  GetSchemaDone /\ call.probe.schema = Undefined /\ call.probe.type = Str("monitor") =>
    IF call.probe.hooks.t = "array" /\ call.probe.hooks.items # <<>>
    THEN ~call.result.threw
    ELSE /\ call.result.threw
         /\ call.result.error = ErrHooksField
         /\ call.result.schema = Undefined

\* C12: for a probe with an explicit schema getSchemaForProbe returns that
\* schema as configured, whatever the type, followed by one REQUIRED
\* timestamp field exactly when the type is watcher and timestamp is true;
\* every later resolution of the same probe returns the same schema as the
\* first.
C12_ExplicitSchemaVerbatimEveryTime ==
  GetSchemaDone /\ Truthy(call.probe.schema) =>
    /\ ~call.first.threw
    /\ call.first.schema.fields =
         call.probe.schema.fields \o
           (IF call.probe.type = Str("watcher") /\ call.probe.timestamp = Bool(TRUE)
            THEN <<TimestampField>> ELSE <<>>)
    /\ call.result.schema = call.first.schema

BuildMonitorDone == call.fn = "buildMonitorSchema" /\ call.done

\* C13: buildMonitorSchema(hooks) returns len(hooks)+1 fields: field i is
\* the normalized name of hook i with type INTEGER and mode NULLABLE, in the
\* order of the hooks, and the last field is timestamp TIMESTAMP REQUIRED;
\* for the single hook a:b the first field is named a_b.
C13_MonitorSchemaShape ==
  BuildMonitorDone =>
    LET fields == call.result.fields
        n == Len(call.hookList)
    IN /\ Len(fields) = n + 1
       /\ \A i \in 1..n :
            fields[i] = [name |-> normalizeFieldName(call.hookList[i]),
                         type |-> "INTEGER", mode |-> "NULLABLE"]
       /\ fields[n + 1] = [name |-> <<"t", "i", "m", "e", "s", "t", "a", "m", "p">>,
                           type |-> "TIMESTAMP", mode |-> "REQUIRED"]
       /\ call.hookList = << <<"a", ":", "b">> >> => fields[1].name = <<"a", "_", "b">>

\* C13 witness: a schema has been built from two different hooks.
C13_Witness ==
  /\ BuildMonitorDone
  /\ Len(call.hookList) = 2
  /\ call.hookList[1] # call.hookList[2]
  /\ Len(call.result.fields) = 3

\* A column name the warehouse accepts: [A-Za-z0-9_]+
LegalName(name) ==
  /\ Len(name) > 0
  /\ \A i \in 1..Len(name) : name[i] \in UpperCase \cup LowerCase \cup DigitSet \cup {"_"}

UniqueLegalNames(fields) ==
  /\ \A i \in 1..Len(fields) : LegalName(fields[i].name)
  /\ \A i, j \in 1..Len(fields) : fields[i].name = fields[j].name => i = j

\* C14: every schema the resolver synthesizes, the counter schema and the
\* monitor schema of every accepted list of hooks, has pairwise distinct
\* field names, each one non-empty and made of letters, digits and '_' only.
C14_SynthesizedNamesUniqueAndLegal ==
  /\ GetSchemaDone /\ call.probe.schema = Undefined /\ ~call.result.threw
       => UniqueLegalNames(call.result.schema.fields)
  /\ BuildMonitorDone => UniqueLegalNames(call.result.fields)

NormalizeDone == call.fn = "normalizeFieldName" /\ call.calls >= 1

\* C15: normalizeFieldName(s) has the length of s, keeps every letter, digit
\* and '_' of s where it is, and has '_' in the place of every other
\* character, so that the result is made of letters, digits and '_' only.
C15_EveryIllegalCharacterReplaced ==
  NormalizeDone /\ call.version = "current" =>
    /\ Len(call.once) = Len(call.text)
    /\ \A i \in 1..Len(call.text) :
         call.once[i] = IF call.text[i] \in UpperCase \cup LowerCase \cup DigitSet \cup {"_"}
                        THEN call.text[i] ELSE "_"

\* C16: in each implementation of normalizeFieldName, normalizing what the
\* function returned gives the same string again.
C16_NormalizeIdempotent ==
  call.fn = "normalizeFieldName" /\ call.calls = 2 => call.twice = call.once

FlattenDone == call.fn = "flattenObject" /\ call.done

\* A mapping is a plain object; scalars, null and sequences are not.
IsMapping(v) == v.t = "object"

\* C17: flattenObject returns an already-flat mapping, one whose values are
\* scalars, sequences or null, as it is: same keys, same values.
C17_FlattenIdentityOnFlat ==
  FlattenDone /\ (\A i \in 1..Len(call.value.kids) : ~IsMapping(call.value.kids[i][2]))
    => call.result = call.value

\* The leaves of a mapping, key and value, in depth-first own-key order; a
\* leaf is a value that is not itself a mapping.
RECURSIVE LeafPairs(_)
LeafPairs(kids) ==
  IF kids = <<>> THEN <<>>
  ELSE (IF IsMapping(Head(kids)[2]) THEN LeafPairs(Head(kids)[2].kids)
        ELSE <<Head(kids)>>) \o LeafPairs(Tail(kids))

\* C18: flattenObject of a nested mapping returns a mapping whose keys are
\* exactly the keys of the leaves of the input, none of whose values is a
\* mapping, and where each key carries the value of the leaf of that name
\* visited last.
C18_FlattenLeavesLastWins ==
  FlattenDone /\ (\E i \in 1..Len(call.value.kids) : IsMapping(call.value.kids[i][2])) =>
    LET leaves == LeafPairs(call.value.kids)
        out == call.result.kids
    IN /\ {out[i][1] : i \in 1..Len(out)} = {leaves[j][1] : j \in 1..Len(leaves)}
       /\ \A i \in 1..Len(out) :
            /\ ~IsMapping(out[i][2])
            /\ \E j \in 1..Len(leaves) :
                 /\ leaves[j] = out[i]
                 /\ \A k \in (j + 1)..Len(leaves) : leaves[k][1] # out[i][1]

ExtractDone == call.fn = "extractMeasureData" /\ call.done

ContentOf(data) == Get(data.kids, ContentKey)

C20_OneRowPerContentElement ==
  ExtractDone /\ ContentOf(call.value).t = "array" =>
    LET content == ContentOf(call.value).kids
        rows == call.result.kids
    IN /\ call.result.t = "array"
       /\ Len(rows) = Len(content)
       /\ \A i \in 1..Len(content) :
            i <= Len(rows) => rows[i] = <<IndexKey(i - 1), normalizeMeasureData(content[i][2])>>

\* C21: init never ends in success while the registry holds a probe no
\* schema can be resolved for (no schema and no type, a monitor without a
\* hooks array, another type without schema), whatever exists() answers.
C21_InvalidProbeFailsInit ==
  initResult = "resolved" => \A n \in DOMAIN probes : SchemaResolvable(probes[n])

\* C22: once init has stored the registry, it stays as configured: no
\* operation changes a probe configuration in it, the fields of an explicit
\* schema included.
C22_RegistryWriteOnce ==
  InitReturned => probes = customConfig.probes.map

\* C23: an insert for the table of a registered probe is issued only once
\* init has succeeded and the chain init started for that probe has
\* succeeded: none while init is pending, none after init has failed.
C23_InsertOnlyAfterEnsure ==
  [][(save'.inserts = 1 /\ save' # save /\ save'.known)
       => /\ initResult = "resolved"
          /\ ensure[save'.probeName].phase = "resolved"]_vars

====
